---- MODULE Spec2Model ----
(***************************************************************************)
(* Model of archive_yt_channel.py: the reconciliation loop that downloads  *)
(* each tracked video, uploads it to the archival store and records the    *)
(* progress in the record store.                                           *)
(*                                                                         *)
(* One worker is one process running `archive_yt_channel()`.  Every worker *)
(* has its own working directory (files[w]); the record store (store) and  *)
(* the archival store (archive) are shared.                                *)
(***************************************************************************)
EXTENDS Integers, Sequences, FiniteSets, TLC

\* ---------------------------------------------------------------- bounds
NumItems == 2
NumWorkers == 2

Items == 1..NumItems
Workers == 1..NumWorkers
\* computed (human readable) identifiers; UUIDs are modelled apart
Idents == 1..NumItems

\* ------------------------------------------------------------- variables
VARIABLES
    backend,      \* which storage secret is set: "mongodb" | "jsonbin" | "none"
    skip_list,    \* the skip_list argument of each worker's archive_yt_channel call
    identOf,      \* record metadata: the identifier lines 123-125/149 compute for each item
    store,        \* record store: item -> [downloaded, uploaded]
    archive,      \* archival store: computed identifier -> "none" | "me" | "foreign"
    files,        \* files[w]: items whose fname exists in worker w's directory
    pc,           \* position of each worker
    iter,         \* the list object the for statement of line 69 iterates
    rebound,      \* TRUE once line 202 has rebound the name `data` in this invocation
    data,         \* the records of the list `data` is bound to after a rebinding
    idx,          \* position of the for loop in iter
    r,            \* the local variable r (response of the last upload that returned)
    identifier,   \* the local variable identifier
    calls,        \* history: what was done while handling the current (or last) item
    upload_date,  \* identifier builder: input record fields and results
    channel_name,
    clean_name,
    built

loopVars == <<pc, iter, rebound, data, idx, r, identifier, calls>>
worldVars == <<backend, skip_list, identOf, store, archive, files>>
idVars == <<upload_date, channel_name, clean_name, built>>
vars == <<backend, skip_list, identOf, store, archive, files, pc, iter,
          rebound, data, idx, r, identifier, calls, upload_date, channel_name,
          clean_name, built>>

\* ------------------------------------------------------- values, helpers
Unbound == [status |-> 0, item |-> 0]
Response(code, i) == [status |-> code, item |-> i]

NoId == [kind |-> "none", n |-> 0, w |-> 0, i |-> 0]
Computed(i) == [kind |-> "computed", n |-> identOf[i], w |-> 0, i |-> 0]
\* str(uuid.uuid4()): a token that is no computed identifier and differs from
\* the other tokens minted for the item (the n-th mint of worker w for item i)
Uuid4(w, i, n) == [kind |-> "uuid", n |-> n, w |-> w, i |-> i]

Call(op, id, res) == [op |-> op, id |-> id, res |-> res]

Running == {"head", "download1", "download2", "write_downloaded", "query",
            "upload1", "sleep", "upload2", "upload3", "status", "unlink", "reload"}
Stopped == {"done", "aborted", "crashed"}

Perms == {s \in [1..NumItems -> Items] : \A a, b \in 1..NumItems : s[a] = s[b] => a = b}

\* list(db['DATA'].find({})) / jb.read_bin(bin_id)['record'], then random.shuffle
Snapshot(order) ==
    [k \in 1..NumItems |->
        [id |-> order[k],
         downloaded |-> store[order[k]].downloaded,
         uploaded |-> store[order[k]].uploaded]]

\* the records of a list load_data returns; the order line 61 gives it is left
\* out for the list of line 202, which no statement indexes or iterates
Records == [i \in Items |-> [id |-> i, downloaded |-> store[i].downloaded,
                                     uploaded |-> store[i].uploaded]]

video(w) == iter[w][idx[w]]

SetVideo(w, field, val) ==
    [iter EXCEPT ![w][idx[w]] = [@ EXCEPT ![field] = val]]

Log(w, c) == [calls EXCEPT ![w] = Append(@, c)]


Advance(w) == [idx EXCEPT ![w] = @ + 1]

\* the process ends (return, exit(0) or an uncaught exception): its locals are gone
Exit(w, how) ==
    /\ pc' = [pc EXCEPT ![w] = how]
    /\ iter' = [iter EXCEPT ![w] = << >>]
    /\ rebound' = [rebound EXCEPT ![w] = FALSE]
    /\ data' = [data EXCEPT ![w] = << >>]
    /\ idx' = [idx EXCEPT ![w] = 1]
    /\ r' = [r EXCEPT ![w] = Unbound]
    /\ identifier' = [identifier EXCEPT ![w] = NoId]
    /\ calls' = [calls EXCEPT ![w] = << >>]

\* ----------------------------------------------------------- load_data
\* lines 38-62 as called on line 67: the first load of an invocation
LoadData(w) ==
    /\ pc[w] = "start"
    /\ IF backend = "none"
       THEN \* NoStorageSecretFound
            Exit(w, "crashed")
       ELSE \E order \in Perms :
            /\ iter' = [iter EXCEPT ![w] = Snapshot(order)]
            /\ rebound' = [rebound EXCEPT ![w] = FALSE]
            /\ data' = [data EXCEPT ![w] = << >>]
            /\ idx' = [idx EXCEPT ![w] = 1]
            /\ r' = [r EXCEPT ![w] = Unbound]
            /\ identifier' = [identifier EXCEPT ![w] = NoId]
            /\ calls' = [calls EXCEPT ![w] = << >>]
            /\ pc' = [pc EXCEPT ![w] = "head"]
    /\ UNCHANGED <<worldVars, idVars>>

\* ------------------------------------------------------------ loop head
\* line 203: the list is exhausted
Return(w) ==
    /\ pc[w] = "head"
    /\ idx[w] > Len(iter[w])
    /\ Exit(w, "done")
    /\ UNCHANGED <<worldVars, idVars>>

\* lines 72-75: skip list member, `continue`
SkipListed(w) ==
    /\ pc[w] = "head"
    /\ idx[w] <= Len(iter[w])
    /\ skip_list[w] # {}
    /\ video(w).id \in skip_list[w]
    /\ calls' = [calls EXCEPT ![w] = << >>]
    /\ idx' = Advance(w)
    /\ UNCHANGED <<pc, iter, rebound, data, r, identifier, worldVars, idVars>>

\* line 91-92: the record says downloaded and not uploaded, the file is gone
Stale(w) ==
    /\ video(w).downloaded
    /\ ~video(w).uploaded
    /\ video(w).id \notin files[w]

\* where the body goes after lines 91-95 (and 147 when nothing is to download)
AfterChecks(downloaded, uploaded) ==
    IF ~downloaded THEN "download1"
    ELSE IF ~uploaded THEN "query"
    ELSE "reload"

\* Begin without lines 91-93: a stale `downloaded` flag is trusted
Begin_NoReset(w) ==
    /\ pc[w] = "head"
    /\ idx[w] <= Len(iter[w])
    /\ ~(skip_list[w] # {} /\ video(w).id \in skip_list[w])
    /\ identifier' = [identifier EXCEPT ![w] = Computed(video(w).id)]
    /\ calls' = [calls EXCEPT ![w] = << >>]
    /\ pc' = [pc EXCEPT ![w] = AfterChecks(video(w).downloaded, video(w).uploaded)]
    /\ UNCHANGED <<iter, rebound, data, idx, r, worldVars, idVars>>

\* lines 71-95, 123-125: start of the handling of the next item.  Lines
\* 123-125 read only the record's metadata, so the identifier is set here.
Begin(w) ==
    /\ pc[w] = "head"
    /\ idx[w] <= Len(iter[w])
    /\ ~(skip_list[w] # {} /\ video(w).id \in skip_list[w])
    /\ iter' = IF Stale(w) THEN SetVideo(w, "downloaded", FALSE) ELSE iter
    /\ identifier' = [identifier EXCEPT ![w] = Computed(video(w).id)]
    /\ calls' = [calls EXCEPT ![w] =
                    IF Stale(w) THEN <<Call("reset_downloaded", NoId, "ok")>> ELSE << >>]
    /\ pc' = [pc EXCEPT ![w] =
                AfterChecks(video(w).downloaded /\ ~Stale(w), video(w).uploaded)]
    /\ UNCHANGED <<rebound, data, idx, r, worldVars, idVars>>

\* -------------------------------------------------------------- download
\* where the body goes after the download block (line 147)
AfterDownload(uploaded) == IF ~uploaded THEN "query" ELSE "reload"

\* lines 99-101: first attempt, format 'mp4/bestaudio+bestvideo'
Download1(w) ==
    /\ pc[w] = "download1"
    /\ \/ /\ files' = [files EXCEPT ![w] = @ \cup {video(w).id}]
          /\ calls' = Log(w, Call("download_mp4", NoId, "ok"))
          /\ pc' = [pc EXCEPT ![w] = "write_downloaded"]
       \/ /\ calls' = Log(w, Call("download_mp4", NoId, "DownloadError"))
          /\ pc' = [pc EXCEPT ![w] = "download2"]
          /\ UNCHANGED files
    /\ UNCHANGED <<iter, rebound, data, idx, r, identifier>>
    /\ UNCHANGED <<backend, skip_list, identOf, store, archive, idVars>>

\* Download2 without the `continue` of line 113
Download2_NoContinue(w) ==
    /\ pc[w] = "download2"
    /\ \/ /\ files' = [files EXCEPT ![w] = @ \cup {video(w).id}]
          /\ calls' = Log(w, Call("download_any", NoId, "ok"))
       \/ /\ calls' = Log(w, Call("download_any", NoId, "DownloadError"))
          /\ UNCHANGED files
    /\ pc' = [pc EXCEPT ![w] = "write_downloaded"]
    /\ UNCHANGED <<iter, rebound, data, idx, r, identifier>>
    /\ UNCHANGED <<backend, skip_list, identOf, store, archive, idVars>>

\* lines 107-113: second attempt without format, `continue` when it fails too
Download2(w) ==
    /\ pc[w] = "download2"
    /\ \/ /\ files' = [files EXCEPT ![w] = @ \cup {video(w).id}]
          /\ calls' = Log(w, Call("download_any", NoId, "ok"))
          /\ pc' = [pc EXCEPT ![w] = "write_downloaded"]
          /\ UNCHANGED idx
       \/ /\ calls' = Log(w, Call("download_any", NoId, "DownloadError"))
          /\ pc' = [pc EXCEPT ![w] = "head"]
          /\ idx' = Advance(w)
          /\ UNCHANGED files
    /\ UNCHANGED <<iter, rebound, data, r, identifier>>
    /\ UNCHANGED <<backend, skip_list, identOf, store, archive, idVars>>

\* WriteDownloaded without the update of line 116
WriteDownloaded_NoWrite(w) ==
    /\ pc[w] = "write_downloaded"
    /\ \/ /\ backend = "mongodb"
          /\ calls' = Log(w, Call("update_downloaded", NoId, "ok"))
          /\ pc' = [pc EXCEPT ![w] = AfterDownload(video(w).uploaded)]
          /\ UNCHANGED <<iter, rebound, data, idx, r, identifier>>
       \/ /\ backend = "jsonbin"
          /\ Exit(w, "crashed")
    /\ UNCHANGED <<backend, skip_list, identOf, store, archive, files, idVars>>

\* WriteDownloaded sending the whole record of the worker's list instead of
\* the one field of line 116
WriteDownloaded_WholeRecord(w) ==
    /\ pc[w] = "write_downloaded"
    /\ \/ /\ backend = "mongodb"
          /\ store' = [store EXCEPT ![video(w).id] =
                          [downloaded |-> TRUE, uploaded |-> video(w).uploaded]]
          /\ calls' = Log(w, Call("update_downloaded", NoId, "ok"))
          /\ pc' = [pc EXCEPT ![w] = AfterDownload(video(w).uploaded)]
          /\ UNCHANGED <<iter, rebound, data, idx, r, identifier>>
       \/ /\ backend = "jsonbin"
          /\ Exit(w, "crashed")
          /\ UNCHANGED store
    /\ UNCHANGED <<backend, skip_list, identOf, archive, files, idVars>>

\* lines 115-119: persist downloaded=True
WriteDownloaded(w) ==
    /\ pc[w] = "write_downloaded"
    /\ \/ /\ backend = "mongodb"
          /\ store' = [store EXCEPT ![video(w).id].downloaded = TRUE]
          /\ calls' = Log(w, Call("update_downloaded", NoId, "ok"))
          /\ pc' = [pc EXCEPT ![w] = AfterDownload(video(w).uploaded)]
          /\ UNCHANGED <<iter, rebound, data, idx, r, identifier>>
       \/ /\ backend = "jsonbin"
          \* line 118 sets video['downloaded']; line 119 names jb, which is
          \* local to load_data: NameError
          /\ Exit(w, "crashed")
          /\ UNCHANGED store
    /\ UNCHANGED <<backend, skip_list, identOf, archive, files, idVars>>

\* ------------------------------------------------------ existence check
\* Query without line 154: the identifier of a foreign entry is kept
Query_KeepsIdentifier(w) ==
    /\ pc[w] = "query"
    /\ LET found == archive[identifier[w].n] IN
       /\ calls' = Log(w, Call("get_item", identifier[w], found))
       /\ \/ /\ found \in {"none", "foreign"}
             /\ pc' = [pc EXCEPT ![w] = "upload1"]
             /\ UNCHANGED <<identifier, idx>>
          \/ /\ found = "me"
             /\ pc' = [pc EXCEPT ![w] = "head"]
             /\ idx' = Advance(w)
             /\ UNCHANGED identifier
    /\ UNCHANGED <<iter, rebound, data, r, worldVars, idVars>>

\* Query without the `continue` of line 157: an own entry is uploaded over
Query_UploadsOverOwn(w) ==
    /\ pc[w] = "query"
    /\ LET found == archive[identifier[w].n] IN
       /\ calls' = Log(w, Call("get_item", identifier[w], found))
       /\ \/ /\ found \in {"none", "me"}
             /\ UNCHANGED identifier
          \/ /\ found = "foreign"
             /\ identifier' = [identifier EXCEPT ![w] = Uuid4(w, video(w).id, 1)]
       /\ pc' = [pc EXCEPT ![w] = "upload1"]
    /\ UNCHANGED <<iter, rebound, data, idx, r, worldVars, idVars>>

\* lines 149-157: get_item(identifier), compare the uploader
Query(w) ==
    /\ pc[w] = "query"
    /\ LET found == archive[identifier[w].n] IN
       /\ calls' = Log(w, Call("get_item", identifier[w], found))
       /\ \/ /\ found = "none"
             /\ pc' = [pc EXCEPT ![w] = "upload1"]
             /\ UNCHANGED <<identifier, idx>>
          \/ /\ found = "foreign"
             /\ identifier' = [identifier EXCEPT ![w] = Uuid4(w, video(w).id, 1)]
             /\ pc' = [pc EXCEPT ![w] = "upload1"]
             /\ UNCHANGED idx
          \/ /\ found = "me"
             /\ pc' = [pc EXCEPT ![w] = "head"]
             /\ idx' = Advance(w)
             /\ UNCHANGED identifier
    /\ UNCHANGED <<iter, rebound, data, r, worldVars, idVars>>

\* ---------------------------------------------------------------- upload
StatusCodes == {200, 503}
\* HTTPError whose text has 'Slow Down' / 'reduce your request rate', or not
HTTPErrors == {"rate_limit", "other_http_error"}

\* the archival store after upload(id, ...) answered with `code`
Stored(id, code) ==
    IF code = 200 /\ id.kind = "computed" /\ archive[id.n] = "none"
    THEN [archive EXCEPT ![id.n] = "me"]
    ELSE archive

\* upload(...) returned: r is assigned, control reaches line 189
Returned(w, id, code) ==
    /\ r' = [r EXCEPT ![w] = Response(code, video(w).id)]
    /\ archive' = Stored(id, code)
    /\ calls' = Log(w, Call("upload", id, IF code = 200 THEN "200" ELSE "non200"))
    /\ pc' = [pc EXCEPT ![w] = "status"]
    /\ UNCHANGED idx

\* lines 165-171: the first upload raised HTTPError
Upload1Raised(w, e) ==
    /\ calls' = Log(w, Call("upload", identifier[w], e))
    /\ pc' = [pc EXCEPT ![w] = IF e = "rate_limit" THEN "sleep" ELSE "status"]
    /\ UNCHANGED <<r, archive, idx>>

\* lines 163-164
Upload1(w) ==
    /\ pc[w] = "upload1"
    /\ \/ \E code \in StatusCodes : Returned(w, identifier[w], code)
       \/ \E e \in HTTPErrors : Upload1Raised(w, e)
    /\ UNCHANGED <<iter, rebound, data, identifier>>
    /\ UNCHANGED <<backend, skip_list, identOf, store, files, idVars>>

\* line 171: time.sleep(60)
Sleep(w) ==
    /\ pc[w] = "sleep"
    /\ calls' = Log(w, Call("sleep60", NoId, "ok"))
    /\ pc' = [pc EXCEPT ![w] = "upload2"]
    /\ UNCHANGED <<iter, rebound, data, idx, r, identifier, worldVars, idVars>>

\* lines 176-178: the second upload raised HTTPError (of either class)
Upload2Raised(w, e) ==
    /\ calls' = Log(w, Call("upload", identifier[w], e))
    /\ pc' = [pc EXCEPT ![w] = "upload3"]
    /\ UNCHANGED <<r, archive, idx>>

\* lines 174-175
Upload2(w) ==
    /\ pc[w] = "upload2"
    /\ \/ \E code \in StatusCodes : Returned(w, identifier[w], code)
       \/ \E e \in HTTPErrors : Upload2Raised(w, e)
    /\ UNCHANGED <<iter, rebound, data, identifier>>
    /\ UNCHANGED <<backend, skip_list, identOf, store, files, idVars>>

\* Fresh without the new token of line 181: the identifier is kept
Fresh_SameIdentifier(w) == identifier[w]

\* line 181: identifier = str(uuid.uuid4())
Fresh(w) ==
    Uuid4(w, video(w).id, IF identifier[w].kind = "uuid" THEN identifier[w].n + 1 ELSE 1)

\* Upload3Raised without the `continue` of line 187
Upload3Raised_NoContinue(w, e) ==
    /\ calls' = Log(w, Call("upload", Fresh(w), e))
    /\ pc' = [pc EXCEPT ![w] = "status"]
    /\ UNCHANGED <<r, archive, idx>>

\* lines 183-187: the third upload raised HTTPError, `continue`
Upload3Raised(w, e) ==
    /\ calls' = Log(w, Call("upload", Fresh(w), e))
    /\ pc' = [pc EXCEPT ![w] = "head"]
    /\ idx' = Advance(w)
    /\ UNCHANGED <<r, archive>>

\* lines 180-182
Upload3(w) ==
    /\ pc[w] = "upload3"
    /\ identifier' = [identifier EXCEPT ![w] = Fresh(w)]
    /\ \/ \E code \in StatusCodes : Returned(w, Fresh(w), code)
       \/ \E e \in HTTPErrors : Upload3Raised(w, e)
    /\ UNCHANGED <<iter, rebound, data>>
    /\ UNCHANGED <<backend, skip_list, identOf, store, files, idVars>>

\* ------------------------------------------------------ status and cleanup
\* lines 189-199
Status(w) ==
    /\ pc[w] = "status"
    /\ \/ /\ r[w] = Unbound
          \* UnboundLocalError: no upload has returned in this invocation
          /\ Exit(w, "crashed")
          /\ UNCHANGED store
       \/ /\ r[w] # Unbound
          /\ r[w].status = 200
          /\ backend = "mongodb"
          /\ store' = [store EXCEPT ![video(w).id].uploaded = TRUE]
          /\ calls' = Log(w, Call("update_uploaded", NoId, "ok"))
          /\ pc' = [pc EXCEPT ![w] = "unlink"]
          /\ UNCHANGED <<iter, rebound, data, idx, r, identifier>>
       \/ /\ r[w] # Unbound
          /\ r[w].status = 200
          /\ backend = "jsonbin"
          \* line 194 sets video['uploaded']; line 195 names jb, which is
          \* local to load_data: NameError
          /\ Exit(w, "crashed")
          /\ UNCHANGED store
       \/ /\ r[w] # Unbound
          /\ r[w].status # 200
          /\ pc' = [pc EXCEPT ![w] = "reload"]
          /\ UNCHANGED <<store, iter, rebound, data, idx, r, identifier, calls>>
    /\ UNCHANGED <<backend, skip_list, identOf, archive, files, idVars>>

\* Unlink without the deletion of line 196
Unlink_KeepsFile(w) ==
    /\ pc[w] = "unlink"
    /\ calls' = Log(w, Call("unlink", NoId, "ok"))
    /\ pc' = [pc EXCEPT ![w] = "reload"]
    /\ UNCHANGED <<iter, rebound, data, idx, r, identifier, worldVars, idVars>>

\* line 196: Path(fname).unlink()
Unlink(w) ==
    /\ pc[w] = "unlink"
    /\ IF video(w).id \in files[w]
       THEN /\ files' = [files EXCEPT ![w] = @ \ {video(w).id}]
            /\ calls' = Log(w, Call("unlink", NoId, "ok"))
            /\ pc' = [pc EXCEPT ![w] = "reload"]
            /\ UNCHANGED <<iter, rebound, data, idx, r, identifier>>
       ELSE \* FileNotFoundError
            /\ Exit(w, "crashed")
            /\ UNCHANGED files
    /\ UNCHANGED <<backend, skip_list, identOf, store, archive, idVars>>

\* Reload with the for statement going on in the list line 202 has loaded
Reload_IteratesNewList(w) ==
    /\ pc[w] = "reload"
    /\ \E order \in Perms : iter' = [iter EXCEPT ![w] = Snapshot(order)]
    /\ data' = [data EXCEPT ![w] = Records]
    /\ rebound' = [rebound EXCEPT ![w] = TRUE]
    /\ calls' = Log(w, Call("load_data", NoId, "ok"))
    /\ idx' = Advance(w)
    /\ pc' = [pc EXCEPT ![w] = "head"]
    /\ UNCHANGED <<r, identifier, worldVars, idVars>>

\* line 202: `data` is rebound to a new list; the for statement keeps the old one
Reload(w) ==
    /\ pc[w] = "reload"
    /\ data' = [data EXCEPT ![w] = Records]
    /\ rebound' = [rebound EXCEPT ![w] = TRUE]
    /\ calls' = Log(w, Call("load_data", NoId, "ok"))
    /\ idx' = Advance(w)
    /\ pc' = [pc EXCEPT ![w] = "head"]
    /\ UNCHANGED <<iter, r, identifier, worldVars, idVars>>

\* ------------------------------------------------------------- __main__
\* lines 33-35, 211, 216-218: the alarm fires inside archive_yt_channel
TimeLimit(w) ==
    /\ pc[w] \in Running \cup {"start"}
    /\ Exit(w, "aborted")
    /\ UNCHANGED <<worldVars, idVars>>

\* lines 206-214: the script is run again (next scheduled job)
Rerun(w) ==
    /\ pc[w] \in Stopped
    /\ pc' = [pc EXCEPT ![w] = "start"]
    /\ UNCHANGED <<iter, rebound, data, idx, r, identifier, calls, worldVars, idVars>>

\* ---------------------------------------------------- identifier builder
IdentifierCeiling == 80
DateLen == 8
MaxChannelLen == 72
MaxTitleLen == 82

NotBuilt == [raw |-> << >>, stripped |-> << >>, done |-> 0]

Min(a, b) == IF a < b THEN a ELSE b
Max(a, b) == IF a > b THEN a ELSE b

\* Python s[a:b] for 0 <= a <= b
Slice(s, a, b) == SubSeq(s, a + 1, Min(b, Len(s)))
\* Python s[:n]; a negative n counts from the end
SliceTo(s, n) == IF n >= 0 THEN Slice(s, 0, n) ELSE Slice(s, 0, Max(0, Len(s) + n))
\* Python s[a:]
SliceFrom(s, a) == SubSeq(s, a + 1, Len(s))

IsNotSpace(c) == c # " "

\* lines 78, 123: f'{y}-{m}-{d}_{video["channel_name"]}'
Prefix(ts, channel) ==
    Slice(ts, 0, 4) \o <<"-">> \o Slice(ts, 4, 6) \o <<"-">> \o SliceFrom(ts, 6)
        \o <<"_">> \o channel

\* line 124
LeftLen(ts, channel) == IdentifierCeiling - (Len(Prefix(ts, channel)) + 1)

\* lines 123-125
Identifier(ts, channel, title) ==
    Prefix(ts, channel) \o <<"_">> \o SliceTo(title, LeftLen(ts, channel))

\* line 149: identifier.replace(' ', '').strip()
Stripped(id) == SelectSeq(id, IsNotSpace)

\* lines 77-78, 123-125
BuildIdentifier ==
    /\ built.done = 0
    /\ built' = [raw |-> Identifier(upload_date, channel_name, clean_name),
                 stripped |-> << >>, done |-> 1]
    /\ UNCHANGED <<upload_date, channel_name, clean_name, loopVars, worldVars>>

\* line 149
StripIdentifier ==
    /\ built.done = 1
    /\ built' = [built EXCEPT !.stripped = Stripped(built.raw), !.done = 2]
    /\ UNCHANGED <<upload_date, channel_name, clean_name, loopVars, worldVars>>

\* a string of n characters c, with a space at every third position when spaced
Text(n, c, spaced) == [k \in 1..n |-> IF spaced /\ k % 3 = 0 THEN " " ELSE c]

\* ------------------------------------------------------------ initial states
Backends == {"mongodb", "jsonbin", "none"}
Owners == {"none", "me", "foreign"}
Flags == [downloaded : BOOLEAN, uploaded : BOOLEAN]
NewRecord == [downloaded |-> FALSE, uploaded |-> FALSE]
\* every item has its own identifier, or items 1 and 2 share one
IdentMaps == {[i \in Items |-> i], [i \in Items |-> IF i = 2 THEN 1 ELSE i]}
\* worker 1 is called without a skip list or with item 1 in it
SkipLists == {s \in [Workers -> {{}, {1}}] : \A w \in Workers : w # 1 => s[w] = {}}

InitLoop(active) ==
    /\ pc = [w \in Workers |-> IF w \in active THEN "start" ELSE "off"]
    /\ iter = [w \in Workers |-> << >>]
    /\ rebound = [w \in Workers |-> FALSE]
    /\ data = [w \in Workers |-> << >>]
    /\ idx = [w \in Workers |-> 1]
    /\ r = [w \in Workers |-> Unbound]
    /\ identifier = [w \in Workers |-> NoId]
    /\ calls = [w \in Workers |-> << >>]

InitNoIdentifier ==
    /\ upload_date = << >>
    /\ channel_name = << >>
    /\ clean_name = << >>
    /\ built = NotBuilt

NoFiles == [w \in Workers |-> {}]
\* only worker 1 has files
OwnFiles == {f \in [Workers -> SUBSET Items] : \A w \in Workers : w # 1 => f[w] = {}}

\* one worker, any record list, any directory content, any archive content
Init ==
    /\ backend \in Backends
    /\ skip_list \in SkipLists
    /\ identOf \in IdentMaps
    /\ store \in [Items -> Flags]
    /\ archive \in [Idents -> Owners]
    /\ files \in OwnFiles
    /\ InitLoop({1})
    /\ InitNoIdentifier

\* one worker, records as the ingestion step creates them, an empty directory
InitFresh ==
    /\ backend \in Backends
    /\ skip_list \in SkipLists
    /\ identOf \in IdentMaps
    /\ store = [i \in Items |-> NewRecord]
    /\ archive \in [Idents -> Owners]
    /\ files = NoFiles
    /\ InitLoop({1})
    /\ InitNoIdentifier

\* one worker resuming on records an earlier run left, some of its files lost
InitResumed ==
    /\ backend \in {"mongodb", "jsonbin"}
    /\ skip_list \in SkipLists
    /\ identOf = [i \in Items |-> i]
    /\ store \in [Items -> {f \in Flags : f.uploaded => f.downloaded}]
    /\ archive = [i \in Idents |-> "none"]
    /\ files \in OwnFiles
    /\ InitLoop({1})
    /\ InitNoIdentifier

\* the identifier builder alone, on records of bounded length
InitIdentifier ==
    /\ backend = "none"
    /\ skip_list = [w \in Workers |-> {}]
    /\ identOf = [i \in Items |-> i]
    /\ store = [i \in Items |-> NewRecord]
    /\ archive = [i \in Idents |-> "none"]
    /\ files = NoFiles
    /\ InitLoop({})
    /\ upload_date = Text(DateLen, "1", FALSE)
    /\ \E n \in 0..MaxChannelLen, spaced \in BOOLEAN : channel_name = Text(n, "c", spaced)
    /\ \E n \in 0..MaxTitleLen : clean_name = Text(n, "t", FALSE)
    /\ built = NotBuilt

\* one invocation of archive_yt_channel
Step(w) ==
    \/ LoadData(w)
    \/ Return(w)
    \/ SkipListed(w)
    \/ Begin(w)
    \/ Download1(w)
    \/ Download2(w)
    \/ WriteDownloaded(w)
    \/ Query(w)
    \/ Upload1(w)
    \/ Sleep(w)
    \/ Upload2(w)
    \/ Upload3(w)
    \/ Status(w)
    \/ Unlink(w)
    \/ Reload(w)
    \/ TimeLimit(w)

NextOnce == \E w \in Workers : Step(w)

Next == \E w \in Workers : Step(w) \/ Rerun(w)

NextIdentifier == BuildIdentifier \/ StripIdentifier

\* several workers on fresh records, one run each; worker 1 sweeps the whole
\* list, its peers are called with item 1 in their skip list
InitConcurrent ==
    /\ backend = "mongodb"
    /\ skip_list = [w \in Workers |-> IF w = 1 THEN {} ELSE {1}]
    /\ identOf = [i \in Items |-> i]
    /\ store = [i \in Items |-> NewRecord]
    /\ archive = [i \in Idents |-> "none"]
    /\ files = NoFiles
    /\ InitLoop(Workers)
    /\ InitNoIdentifier

\* any record list, the script run again and again
Spec == Init /\ [][Next]_vars

\* one run from fresh records
SpecOnce == InitFresh /\ [][NextOnce]_vars

\* one run on records left by earlier runs
SpecResumed == InitResumed /\ [][NextOnce]_vars

\* concurrent workers, one run each
SpecConcurrent == InitConcurrent /\ [][NextOnce]_vars

\* the identifier builder
SpecIdentifier == InitIdentifier /\ [][NextIdentifier]_vars

\* ============================================================ properties
IsUpload(c) == c.op = "upload"
IsDownload(c) == c.op \in {"download_mp4", "download_any"}
\* the upload calls of the current (or last) handling of worker w, in order
Uploads(w) == SelectSeq(calls[w], IsUpload)
\* a step of worker w appended an entry to its history
Did(w) == Len(calls'[w]) = Len(calls[w]) + 1
Done(w) == calls'[w][Len(calls'[w])]

\* ---------------------------------------------------------------------- C1
\* C1: the store's `uploaded` flag of an item is written to true only if an
\* upload call made for that item, during the handling of that item, returned
\* status 200.
C1_UploadedOnlyAfterOwn200 ==
    [][\A i \in Items :
         (~store[i].uploaded /\ store'[i].uploaded) =>
            \E w \in Workers :
               /\ pc[w] = "status"
               /\ video(w).id = i
               /\ \E k \in DOMAIN calls[w] :
                     /\ calls[w][k].op = "upload"
                     /\ calls[w][k].res = "200"]_vars

\* ---------------------------------------------------------------------- C2
AllUploaded == \A i \in Items : store[i].uploaded
WorkOps == {"download_mp4", "download_any", "upload", "update_downloaded",
            "update_uploaded", "update_bin"}

\* C2: when every record has uploaded=true, a pass (and the pass after it)
\* makes no download call, no upload call and no write to the record store.
C2_IdempotentWhenAllUploaded ==
    [][AllUploaded =>
          /\ store' = store
          /\ \A w \in Workers : Did(w) => Done(w).op \notin WorkOps]_vars

\* ---------------------------------------------------------------------- C3
FileIffPending(w) ==
    \A i \in Items : (i \in files[w]) <=> (store[i].downloaded /\ ~store[i].uploaded)

Exhausted(w) ==
    /\ Len(Uploads(w)) = 3
    /\ Uploads(w)[1].res = "rate_limit"
    /\ Uploads(w)[2].res \in HTTPErrors
    /\ Uploads(w)[3].res \in HTTPErrors

\* C4: after the ladder is exhausted the worker stands at the loop head with
\* the next position of its list, the item's `uploaded` flag is false in the
\* store and its file is still there.
C4_ExhaustedLadderSkips ==
    \A w \in Workers :
        Exhausted(w) =>
            /\ pc[w] = "head"
            /\ idx[w] >= 2
            /\ LET i == iter[w][idx[w] - 1].id IN
                  /\ Uploads(w)[3].id.i = i
                  /\ ~store[i].uploaded
                  /\ i \in files[w]

C4_Witness ==
    \E w \in Workers : Exhausted(w) /\ pc[w] = "head" /\ idx[w] <= Len(iter[w])

\* ---------------------------------------------------------------------- C5
\* the first upload attempt failed with an HTTP error not of the rate-limit class
FirstOther(w) == Len(Uploads(w)) >= 1 /\ Uploads(w)[1].res = "other_http_error"
AllRaised(w) == \A k \in DOMAIN Uploads(w) : Uploads(w)[k].res \in HTTPErrors

\* C5: such an error is followed by the retry ladder (second attempt under the
\* same identifier, third under a fresh one); when all attempts fail the item
\* is skipped: no flag written, file kept, the process goes on.
C5_OtherErrorRetries ==
    \A w \in Workers :
        (FirstOther(w) /\ AllRaised(w)) =>
            /\ Len(Uploads(w)) = 1 => pc[w] \in {"sleep", "upload2"}
            /\ Len(Uploads(w)) = 2 =>
                  pc[w] = "upload3" /\ Uploads(w)[2].id = Uploads(w)[1].id
            /\ Len(Uploads(w)) = 3 =>
                  /\ pc[w] = "head"
                  /\ Uploads(w)[3].id # Uploads(w)[1].id
                  /\ ~store[iter[w][idx[w] - 1].id].uploaded
                  /\ iter[w][idx[w] - 1].id \in files[w]

\* ---------------------------------------------------------------------- C6
FoundForeign(c) == c.op = "get_item" /\ c.res = "foreign"

\* C6: when the existence check finds the computed identifier under another
\* uploader, the worker's identifier is replaced and no upload call of the
\* handling uses the identifier of the foreign entry.
C6_ForeignIdentifierNotReused ==
    \A w \in Workers : \A k \in DOMAIN calls[w] :
        FoundForeign(calls[w][k]) =>
            /\ identifier[w] # calls[w][k].id
            /\ identifier[w].kind = "uuid"
            /\ \A m \in DOMAIN calls[w] :
                  IsUpload(calls[w][m]) => calls[w][m].id # calls[w][k].id

C6_Witness ==
    \E w \in Workers : \E k, m \in DOMAIN calls[w] :
        /\ FoundForeign(calls[w][k])
        /\ IsUpload(calls[w][m])
        /\ calls[w][m].res = "200"

\* ---------------------------------------------------------------------- C7
\* the record the worker is about to handle says downloaded and not uploaded,
\* its file is absent and it is not in the skip list
StaleAtHead(w) ==
    /\ pc[w] = "head"
    /\ idx[w] <= Len(iter[w])
    /\ iter[w][idx[w]].id \notin skip_list[w]
    /\ iter[w][idx[w]].downloaded
    /\ ~iter[w][idx[w]].uploaded
    /\ iter[w][idx[w]].id \notin files[w]

QueryOrUpload(c) == c.op \in {"get_item", "upload"}
UploadStages == {"query", "upload1", "sleep", "upload2", "upload3", "status", "unlink"}
DownloadedBefore(w, m) ==
    \E k \in 1..(m - 1) : IsDownload(calls[w][k]) /\ calls[w][k].res = "ok"

\* C7: a stale record has its `downloaded` flag reset and goes to the download;
\* while the flag of the record in hand is false, every archival query and
\* upload of the handling comes after a download that succeeded.
C7_StaleIsDownloadedFirst ==
    /\ [][\A w \in Workers :
            (StaleAtHead(w) /\ pc'[w] # "aborted") =>
                /\ pc'[w] = "download1"
                /\ ~iter'[w][idx[w]].downloaded]_vars
    /\ [](\A w \in Workers :
            (pc[w] \in Running \ {"head"} /\ ~video(w).downloaded) =>
                /\ \A m \in DOMAIN calls[w] :
                      QueryOrUpload(calls[w][m]) => DownloadedBefore(w, m)
                /\ pc[w] \in UploadStages => DownloadedBefore(w, Len(calls[w]) + 1))

C7_Witness ==
    \E w \in Workers :
        /\ pc[w] = "status"
        /\ calls[w] # << >>
        /\ calls[w][1].op = "reset_downloaded"
        /\ \E m \in DOMAIN calls[w] : IsUpload(calls[w][m])

\* ---------------------------------------------------------------------- C8
\* C8: the identifier built on lines 123-125 has at most 80 characters before
\* line 149 strips its spaces.
C8_IdentifierAtMost80 ==
    built.done >= 1 => Len(built.raw) <= IdentifierCeiling

\* ---------------------------------------------------------------------- C9
\* C9: when the worker comes to the loop head after an item, the last thing it
\* did for that item is the reload of the record list.
C9_ReloadAfterEveryItem ==
    \A w \in Workers :
        (pc[w] = "head" /\ idx[w] > 1) =>
            /\ calls[w] # << >>
            /\ calls[w][Len(calls[w])].op = "load_data"

\* --------------------------------------------------------------------- C10
\* C10: a worker whose latest reload saw uploaded=true for the item it is now
\* at (a peer wrote it before that reload) does nothing for that item: no
\* download, no upload, no store write.
C10_SkipsWhatPeerUploaded ==
    \A w \in Workers :
        (/\ pc[w] \in Running \ {"head"}
         /\ rebound[w]
         /\ data[w][video(w).id].uploaded) =>
            \A k \in DOMAIN calls[w] : calls[w][k].op \notin WorkOps

\* --------------------------------------------------------------------- C11
\* worker w takes a step of its own that is not the time-limit abort
Moves(w) == pc'[w] # pc[w] /\ pc'[w] # "aborted"

\* C11: under either backend, the step that follows a successful download
\* leaves downloaded=true in the store for the item (before any archival
\* query or upload), and the step that follows a status 200 of the item's own
\* upload leaves uploaded=true in the store, for the first and every later item.
C11_WriteBackEitherBackend ==
    [][\A w \in Workers :
         /\ (pc[w] = "write_downloaded" /\ Moves(w)) =>
                store'[video(w).id].downloaded
         /\ (pc[w] = "status" /\ r[w] = Response(200, video(w).id) /\ Moves(w)) =>
                store'[video(w).id].uploaded]_vars

\* --------------------------------------------------------------------- C12
\* C12: with concurrent workers, every step leaves the set of record ids of
\* the store as it was and no flag of the store goes from true to false.
C12_FlagsOnlyRise ==
    [][/\ DOMAIN store' = DOMAIN store
       /\ \A i \in DOMAIN store :
             /\ store[i].downloaded => store'[i].downloaded
             /\ store[i].uploaded => store'[i].uploaded]_vars

\* a worker has written downloaded=true for an item from the list it read at
\* its start, which says uploaded=false where the store has uploaded=true
C12_Witness ==
    \E w \in Workers :
        /\ pc[w] = "query"
        /\ calls[w][Len(calls[w])].op = "update_downloaded"
        /\ ~video(w).uploaded
        /\ store[video(w).id].uploaded
        /\ store[video(w).id].downloaded

\* --------------------------------------------------------------------- C13
\* the download calls of the current (or last) handling of worker w, in order
Downloads(w) == SelectSeq(calls[w], IsDownload)
FailedTwice(w) ==
    Len(Downloads(w)) = 2 /\ Downloads(w)[2].res = "DownloadError"
AfterDownloadOps == {"get_item", "upload", "sleep60", "update_downloaded",
                     "update_uploaded", "unlink"}

\* C13: a handling makes at most two download calls, the first with the format
\* constraint, the second only after the first raised and without constraint;
\* when the second raises too, the worker is at the loop head with the next
\* position, the record of the item is still as the ingestion created it and
\* the handling made no archival query, no upload and no store write.
C13_DownloadPolicy ==
    /\ [](\A w \in Workers :
            /\ Len(Downloads(w)) <= 2
            /\ Len(Downloads(w)) >= 1 => Downloads(w)[1].op = "download_mp4"
            /\ Len(Downloads(w)) = 2 =>
                  /\ Downloads(w)[1].res = "DownloadError"
                  /\ Downloads(w)[2].op = "download_any"
            /\ FailedTwice(w) =>
                  /\ pc[w] = "head"
                  /\ idx[w] >= 2
                  /\ store[iter[w][idx[w] - 1].id] = NewRecord
                  /\ \A k \in DOMAIN calls[w] : calls[w][k].op \notin AfterDownloadOps)
    /\ [][\A w \in Workers :
            (pc[w] = "download2" /\ pc'[w] = "head") =>
                /\ store' = store
                /\ idx'[w] = idx[w] + 1]_vars

C13_Witness ==
    \E w \in Workers : FailedTwice(w) /\ pc[w] = "head" /\ idx[w] <= Len(iter[w])

\* --------------------------------------------------------------------- C14
\* how many of the first m entries of worker w's history are upload calls
Attempt(w, m) == Len(SelectSeq(SubSeq(calls[w], 1, m), IsUpload))
IsSleep(c) == c.op = "sleep60"

\* C14: a handling makes at most three upload calls and waits at most once;
\* the second call comes right after the wait, which comes right after a first
\* call that raised a rate-limit error, and uses the identifier of the first;
\* the third call comes right after a second call that raised an HTTP error
\* (no wait in between) and uses a newly minted token, not the identifier of
\* the calls before it.
C14_LadderOrdering ==
    \A w \in Workers :
        /\ Len(Uploads(w)) <= 3
        /\ Len(SelectSeq(calls[w], IsSleep)) <= 1
        /\ \A m \in DOMAIN calls[w] :
              IsUpload(calls[w][m]) =>
                 /\ Attempt(w, m) = 2 =>
                       /\ m >= 3
                       /\ IsSleep(calls[w][m - 1])
                       /\ IsUpload(calls[w][m - 2])
                       /\ calls[w][m - 2].res = "rate_limit"
                       /\ calls[w][m].id = calls[w][m - 2].id
                 /\ Attempt(w, m) = 3 =>
                       /\ IsUpload(calls[w][m - 1])
                       /\ calls[w][m - 1].res \in HTTPErrors
                       /\ calls[w][m].id.kind = "uuid"
                       /\ calls[w][m].id # calls[w][m - 1].id

C14_Witness ==
    \E w \in Workers :
        /\ Len(Uploads(w)) = 3
        /\ Uploads(w)[3].res = "200"
        /\ Uploads(w)[1].id.kind = "uuid"

\* --------------------------------------------------------------------- C15
Has(w, op, res) ==
    \E k \in DOMAIN calls[w] : calls[w][k].op = op /\ calls[w][k].res = res

\* C15: a step that removes an item's file from a worker's directory is made
\* in the handling of that item, after an upload call of the handling returned
\* status 200 and after uploaded=true was written for the item.
C15_DeletedOnlyAfterOwn200 ==
    [][\A w \in Workers : \A i \in Items :
         (i \in files[w] /\ i \notin files'[w]) =>
            /\ pc[w] = "unlink"
            /\ video(w).id = i
            /\ Has(w, "upload", "200")
            /\ Has(w, "update_uploaded", "ok")
            /\ store[i].uploaded]_vars

\* --------------------------------------------------------------------- C16
FoundOwn(c) == c.op = "get_item" /\ c.res = "me"

\* C16: when the existence check finds the computed identifier under the
\* configured account, the check is the last thing the handling does: the
\* worker is at the loop head with the next position, the handling has made no
\* upload call and no write of `uploaded`, the flag is false in the store and
\* the file of the item is on disk; the step itself changes neither the store
\* nor the directory nor the archive.
C16_SameOwnerSkips ==
    /\ [](\A w \in Workers : \A k \in DOMAIN calls[w] :
            FoundOwn(calls[w][k]) =>
                /\ k = Len(calls[w])
                /\ calls[w][k].id.kind = "computed"
                /\ pc[w] = "head"
                /\ idx[w] >= 2
                /\ \A m \in DOMAIN calls[w] :
                      calls[w][m].op \notin {"upload", "update_uploaded", "unlink"}
                /\ ~store[iter[w][idx[w] - 1].id].uploaded
                /\ iter[w][idx[w] - 1].id \in files[w])
    /\ [][\A w \in Workers :
            (pc[w] = "query" /\ pc'[w] = "head") =>
                /\ store' = store
                /\ files' = files
                /\ archive' = archive]_vars

C16_Witness ==
    \E w \in Workers :
        /\ pc[w] = "head"
        /\ calls[w] # << >>
        /\ FoundOwn(calls[w][Len(calls[w])])
        /\ iter[w][idx[w] - 1].id \in files[w]

\* --------------------------------------------------------------------- C17
\* a step of archive_yt_channel other than the delivery of the alarm
Work(w) == Step(w) /\ pc'[w] # "aborted"

\* one worker on fresh records with a storage secret set; the archive is empty
\* but for the first identifier, which may be taken
InitPass ==
    /\ backend \in {"mongodb", "jsonbin"}
    /\ skip_list \in SkipLists
    /\ identOf \in IdentMaps
    /\ store = [i \in Items |-> NewRecord]
    /\ archive \in {a \in [Idents -> Owners] : \A n \in Idents : n # 1 => a[n] = "none"}
    /\ files = NoFiles
    /\ InitLoop({1})
    /\ InitNoIdentifier

\* one run in which every call returns: the interpreter goes on with the next
\* statement as long as there is one
SpecPass == InitPass /\ [][NextOnce]_vars /\ \A w \in Workers : WF_vars(Work(w))

Ids(list) == [k \in DOMAIN list |-> list[k].id]

\* C17: an invocation ends (returns, or stops on an exception or the alarm);
\* while it runs, the list it sweeps holds each record id once and keeps its
\* ids and their order whatever the reloads bring, the position in the list
\* never goes back and moves by one exactly when the worker comes (back) to
\* the loop head, and the handling of a position starts at the loop head
\* only: each item of the first list is handled at most once, in turn.
C17_PassTerminates ==
    /\ \A w \in Workers : <>(pc[w] \in Stopped \cup {"off"})
    /\ [](\A w \in Workers :
            pc[w] \in Running =>
                /\ Len(iter[w]) = NumItems
                /\ \A a, b \in DOMAIN iter[w] : iter[w][a].id = iter[w][b].id => a = b
                /\ idx[w] \in 1..(NumItems + 1)
                /\ pc[w] # "head" => idx[w] <= NumItems)
    /\ [][\A w \in Workers :
            (pc[w] \in Running /\ pc'[w] \in Running) =>
                /\ Ids(iter'[w]) = Ids(iter[w])
                /\ idx'[w] \in {idx[w], idx[w] + 1}
                /\ (pc[w] # "head" /\ pc'[w] = "head") => idx'[w] = idx[w] + 1
                /\ pc'[w] # "head" => idx'[w] = idx[w]]_vars

C17_Witness ==
    \E w \in Workers :
        /\ pc[w] = "head"
        /\ idx[w] = NumItems + 1
        /\ rebound[w]
        /\ \A i \in Items : store[i].uploaded

\* --------------------------------------------------------------------- C18
\* C18: from records created with both flags false, with concurrent workers,
\* provider failures and aborts at any step, a record of the store with
\* uploaded=true has downloaded=true.
C18_UploadedImpliesDownloaded ==
    \A i \in Items : store[i].uploaded => store[i].downloaded

\* an item is uploaded in the store while a worker that read uploaded=false
\* for it has downloaded it again and is about to write its `downloaded` flag
C18_Witness ==
    \E w \in Workers :
        /\ pc[w] = "write_downloaded"
        /\ ~video(w).downloaded
        /\ store[video(w).id].uploaded
        /\ \E v \in Workers : pc[v] = "aborted"

\* --------------------------------------------------------------------- C19
\* one worker on fresh records and an empty archive; two records of the list
\* may have the same computed identifier
InitEmptyArchive ==
    /\ backend \in {"mongodb", "jsonbin"}
    /\ skip_list \in SkipLists
    /\ identOf \in IdentMaps
    /\ store = [i \in Items |-> NewRecord]
    /\ archive = [n \in Idents |-> "none"]
    /\ files = NoFiles
    /\ InitLoop({1})
    /\ InitNoIdentifier

\* one run on an empty archive
SpecEmptyArchive == InitEmptyArchive /\ [][NextOnce]_vars

\* C19: the archive is empty when the run starts and a run handles a record
\* once, so an entry of the configured account that the existence check of a
\* record finds was made by the upload of another record of the list: no
\* existence check of the run finds such an entry (no record is skipped as
\* already uploaded because of the upload of another one).
C19_SkipOnlyForOwnUpload ==
    \A w \in Workers : \A k \in DOMAIN calls[w] : ~FoundOwn(calls[w][k])

\* --------------------------------------------------------------------- C20
\* one worker with the document database, fresh records with identifiers of
\* their own, an empty archive
InitForever ==
    /\ backend = "mongodb"
    /\ skip_list \in SkipLists
    /\ identOf = [i \in Items |-> i]
    /\ store = [i \in Items |-> NewRecord]
    /\ archive = [n \in Idents |-> "none"]
    /\ files = NoFiles
    /\ InitLoop({1})
    /\ InitNoIdentifier

\* the script is run again and again and never hangs
SpecForever == InitForever /\ [][Next]_vars /\ WF_vars(Next)

ProviderFailures == {"DownloadError", "rate_limit", "other_http_error", "non200"}
\* a step in which a provider call fails or the alarm aborts the run
Failure ==
    \E w \in Workers :
        \/ pc[w] # "aborted" /\ pc'[w] = "aborted"
        \/ Did(w) /\ Done(w).res \in ProviderFailures

\* C20: in a behaviour with finitely many provider failures and aborts, every
\* item outside the skip list eventually has uploaded=true in the store.
C20_EventuallyAllUploaded ==
    (<>[][~Failure]_vars) =>
        <>(\A w \in Workers : pc[w] # "off" =>
              \A i \in Items \ skip_list[w] : store[i].uploaded)

====
